---- MODULE Spec2Model ----
(***************************************************************************)
(* State-management patterns of simowe/state-management-in-vue:            *)
(*   - userLogin.ts      global reactive state (loggedInUser, isLoggedIn,  *)
(*                       login, fetchMyUser)                               *)
(*   - ProvideInject2.ts provideTheme / injectTheme, useProduct            *)
(*   - useMyUser.ts      useMyUser                                         *)
(*   - fetchProduct.ts   fetchProduct                                      *)
(* JavaScript runs one job at a time: a job (a setup call, a timer         *)
(* callback, an event handler) runs to completion, then the microtask      *)
(* queue is drained in FIFO order before the next job starts.              *)
(***************************************************************************)
EXTENDS Integers, Sequences, FiniteSets, TLC

\* ------------------------------------------------------------------ bounds
\* Number of login() calls made in a behaviour.
NLogins == 3
\* Number of components of the component tree.
NComps == 3
\* Number of provide calls one setup() makes.
MaxProvides == 2
\* Number of components that call useMyUser, useProduct or useSWR.
NCallers == 2
\* Number of product ids.
NProducts == 2
\* Number of changes of a productId prop in a behaviour.
MaxPropChanges == 2
\* Number of components of the tree when components also provide and inject
\* under a key of their own.
NKeyComps == 2
\* Number of direct assignments to loggedInUser.value made by components.
MaxWrites == 2

\* ------------------------------------------------------------------ values
\* JavaScript values.  Objects carry an identity (id): two objects created by
\* two evaluations of the same object literal are different values.
Undefined == [type |-> "undefined"]
Null == [type |-> "null"]
Num(n) == [type |-> "number", val |-> n]

\* An object: its identity and its properties.
Object(id, fields) == [type |-> "object", id |-> id, fields |-> fields]

\* userLogin.ts:17-19  what fetchMyUser resolves with: { username: 'Super USER!' }
fetchMyUser == [username |-> "Super USER!"]

\* The object the n-th invocation of fetchMyUser created.
UserObject(n) == Object(n, fetchMyUser)

LoginCalls == 1..NLogins

VARIABLES
  loggedInUser,      \* userLogin.ts:4   loggedInUser.value
  isLoggedIn_dirty,  \* userLogin.ts:5   the computed has to be re-evaluated
  isLoggedIn_cached, \* userLogin.ts:5   the computed's last evaluated value
  loginPc,           \* position of each login() call
  loginResult,       \* what fetchMyUser returned to each login() call
  microtasks,        \* FIFO queue of promise continuations
  fetchMyUserCalls,  \* number of times login() invoked fetchMyUser
  resolveOrder,      \* login() calls in the order their fetchMyUser resolved
  loginAssigns,      \* number of assignments to loggedInUser made by login()
  writes             \* number of direct assignments made by components

loginVars == <<loggedInUser, isLoggedIn_dirty, isLoggedIn_cached, loginPc,
               loginResult, microtasks, fetchMyUserCalls, resolveOrder,
               loginAssigns, writes>>

\* ------------------------------------------------------------ generated keys
\* nanoid(): a string of 21 characters of the alphabet A-Za-z0-9_-.  These are
\* the ids a behaviour can draw.
NanoIds == {"V1StGXR8_Z5jdHi6B-myT", "4f90d13a42_KqXw7LmPzR", "Uakgb_J5m9g-0JDMbcJqL"}

\* Keys that components write themselves (README.md:71, 180).
LiteralProvideKey == "language"
LiteralCacheKey == "myUser"

\* ProvideInject2.ts:6,23 useMyUser.ts:5  nanoid(): a unique id, that is, none of
\* the ids generated before (used).
nanoid(used) == NanoIds \ used

VARIABLES
  key_theme,   \* ProvideInject2.ts:6   const key
  key_myUser,  \* useMyUser.ts:5        const key
  uniqueKey    \* ProvideInject2.ts:23  const uniqueKey

keyVars == <<key_theme, key_myUser, uniqueKey>>

\* Variant of useMyUser.ts:5 with the key written in the file: 'myUser'.
InitKeys_literal ==
  /\ key_theme \in nanoid({})
  /\ uniqueKey \in nanoid({key_theme})
  /\ key_myUser = LiteralCacheKey

\* The three modules have been evaluated, each calling nanoid() once.
InitKeys ==
  /\ key_theme \in nanoid({})
  /\ uniqueKey \in nanoid({key_theme})
  /\ key_myUser \in nanoid({key_theme, uniqueKey})


\* ------------------------------------------------- ProvideInject2.ts:1-16
\* Components are numbered in the order they are created; component 1 is the
\* root of the application.  Object 0 is the application's provides object,
\* object c the provides object created for component c.
Comps == 1..NComps
Objs == 0..NComps
NoObject == -1
NotCalled == [type |-> "not called"]
NoneProvided == [type |-> "none provided"]
Str(s) == [type |-> "string", val |-> s]
Themes == {Str("dark"), Str("light")}
Languages == {Str("en-GB")}

VARIABLES
  created,          \* the components that exist
  parent,           \* instance.parent of each component (0: none)
  provides,         \* instance.provides of each component: an object
  own,              \* own properties of each provides object
  proto,            \* prototype of each provides object
  current,          \* the component whose setup() is running (0: none)
  provideCalls,     \* provide calls made so far by the running setup()
  injected,         \* the last inject call: who called, through what, the result
  lastTheme,        \* the last theme each component gave to provideTheme
  lastLanguage      \* the last value each component gave to provide('language')

themeVars == <<created, parent, provides, own, proto, current, provideCalls,
               injected, lastTheme, lastLanguage>>

\* ------------------------------------ useMyUser.ts, ProvideInject2.ts:18-31
Callers == 1..NCallers
ProductIds == {Num(p) : p \in 1..NProducts}
Hooks == {"useMyUser", "useProduct", "useSWR"}

VARIABLES
  hook,          \* the hook each component called in its setup() ("none": none)
  productIdRef,  \* productIdRef.value of each component
  cache,         \* the cache of useSWR: key -> [data, error]
  inflight,      \* the fetches useSWR started that have not resolved
  started,       \* per hook: number of times useSWR invoked its fetcher
  resolved,      \* per hook: number of its fetches that resolved
  propChanges    \* number of changes of a productId prop so far

swrVars == <<hook, productIdRef, cache, inflight, started, resolved, propChanges>>

vars == <<loginVars, keyVars, themeVars, swrVars>>
notLoginVars == <<keyVars, themeVars, swrVars>>
notThemeVars == <<keyVars, loginVars, swrVars>>
notSwrVars == <<keyVars, loginVars, themeVars>>

\* ------------------------------------------------------- userLogin.ts

\* Variant of the getter with != in place of !==: null counts as undefined.
isLoggedInGetter_loose(v) == v # Undefined /\ v # Null

\* userLogin.ts:5  the getter handed to computed(): loggedInUser.value !== undefined
isLoggedInGetter(v) == v # Undefined

\* userLogin.ts:5  isLoggedIn.value as a reader sees it: a computed evaluates
\* its getter when it is dirty and returns its cached value otherwise.
isLoggedIn == IF isLoggedIn_dirty THEN isLoggedInGetter(loggedInUser)
              ELSE isLoggedIn_cached

\* userLogin.ts:4  the setter of a ref: a value that differs from the current
\* one (Object.is) is stored and the computeds that read the ref become dirty.
RefSet(v) ==
  IF v # loggedInUser
  THEN /\ loggedInUser' = v
       /\ isLoggedIn_dirty' = TRUE
       /\ UNCHANGED isLoggedIn_cached
  ELSE UNCHANGED <<loggedInUser, isLoggedIn_dirty, isLoggedIn_cached>>

\* A job may start only when no setup() is running and the microtask queue has
\* been drained.
JobMayStart == microtasks = <<>> /\ current = 0

\* Variant of login() that resets loggedInUser.value to undefined before it
\* fetches.
login_clears(c) ==
  /\ UNCHANGED notLoginVars
  /\ JobMayStart
  /\ loginPc[c] = "idle"
  /\ loginPc' = [loginPc EXCEPT ![c] = "delay"]
  /\ fetchMyUserCalls' = fetchMyUserCalls + 1
  /\ RefSet(Undefined)
  /\ UNCHANGED <<loginResult, microtasks, resolveOrder, loginAssigns, writes>>

\* Variant of login() that returns at once while another login() is waiting
\* for its fetch.
login_deduplicated(c) ==
  /\ UNCHANGED notLoginVars
  /\ JobMayStart
  /\ loginPc[c] = "idle"
  /\ IF \E d \in LoginCalls : loginPc[d] = "delay"
     THEN /\ loginPc' = [loginPc EXCEPT ![c] = "done"]
          /\ UNCHANGED fetchMyUserCalls
     ELSE /\ loginPc' = [loginPc EXCEPT ![c] = "delay"]
          /\ fetchMyUserCalls' = fetchMyUserCalls + 1
  /\ UNCHANGED <<loggedInUser, isLoggedIn_dirty, isLoggedIn_cached, loginResult,
                 microtasks, resolveOrder, loginAssigns, writes>>

\* Variant of login() without the await: the promise is assigned at once.
login_noAwait(c) ==
  /\ UNCHANGED notLoginVars
  /\ JobMayStart
  /\ loginPc[c] = "idle"
  /\ loginPc' = [loginPc EXCEPT ![c] = "delay"]
  /\ fetchMyUserCalls' = fetchMyUserCalls + 1
  /\ RefSet([type |-> "promise", id |-> c])
  /\ UNCHANGED <<loginResult, microtasks, resolveOrder, loginAssigns, writes>>

\* userLogin.ts:7-8 and 13-15  login() is called: it calls fetchMyUser(), which
\* logs, starts delay(1000) and suspends on it; login() suspends on the promise
\* fetchMyUser returned.
login(c) ==
  /\ UNCHANGED notLoginVars
  /\ JobMayStart
  /\ loginPc[c] = "idle"
  /\ loginPc' = [loginPc EXCEPT ![c] = "delay"]
  /\ fetchMyUserCalls' = fetchMyUserCalls + 1
  /\ UNCHANGED <<loggedInUser, isLoggedIn_dirty, isLoggedIn_cached, loginResult,
                 microtasks, resolveOrder, loginAssigns, writes>>

\* userLogin.ts:15  the timer of delay(1000) fires: the promise fetchMyUser
\* awaits is fulfilled and the rest of fetchMyUser is queued as a microtask.
delayElapsed(c) ==
  /\ UNCHANGED notLoginVars
  /\ JobMayStart
  /\ loginPc[c] = "delay"
  /\ loginPc' = [loginPc EXCEPT ![c] = "timer"]
  /\ microtasks' = Append(microtasks, <<"fetchMyUser", c>>)
  /\ UNCHANGED <<loggedInUser, isLoggedIn_dirty, isLoggedIn_cached, loginResult,
                 fetchMyUserCalls, resolveOrder, loginAssigns, writes>>

\* userLogin.ts:17-19  fetchMyUser resumes after the await and returns a new
\* object: its promise is fulfilled and the rest of login() is queued.
fetchMyUserReturns ==
  /\ UNCHANGED notLoginVars
  /\ microtasks # <<>>
  /\ Head(microtasks)[1] = "fetchMyUser"
  /\ LET c == Head(microtasks)[2] IN
       /\ loginPc' = [loginPc EXCEPT ![c] = "fetched"]
       /\ loginResult' = [loginResult EXCEPT ![c] = UserObject(c)]
       /\ resolveOrder' = Append(resolveOrder, c)
       /\ microtasks' = Append(Tail(microtasks), <<"login", c>>)
  /\ UNCHANGED <<loggedInUser, isLoggedIn_dirty, isLoggedIn_cached,
                 fetchMyUserCalls, loginAssigns, writes>>

\* userLogin.ts:8  login() resumes after the await: loggedInUser.value = <user>
loginResumes ==
  /\ UNCHANGED notLoginVars
  /\ microtasks # <<>>
  /\ Head(microtasks)[1] = "login"
  /\ LET c == Head(microtasks)[2] IN
       /\ loginPc' = [loginPc EXCEPT ![c] = "done"]
       /\ RefSet(loginResult[c])
  /\ microtasks' = Tail(microtasks)
  /\ loginAssigns' = loginAssigns + 1
  /\ UNCHANGED <<loginResult, fetchMyUserCalls, resolveOrder, writes>>

\* userLogin.ts:5  a component (or a template) reads isLoggedIn.value: a dirty
\* computed evaluates its getter and caches the result.
readIsLoggedIn ==
  /\ UNCHANGED notLoginVars
  /\ JobMayStart
  /\ isLoggedIn_dirty
  /\ isLoggedIn_cached' = isLoggedInGetter(loggedInUser)
  /\ isLoggedIn_dirty' = FALSE
  /\ UNCHANGED <<loggedInUser, loginPc, loginResult, microtasks,
                 fetchMyUserCalls, resolveOrder, loginAssigns, writes>>

\* userLogin.ts:4  loggedInUser is exported: a component assigns
\* loggedInUser.value directly.
DirectValues == {Undefined, Null, Object(0, [username |-> "someone"])}

assignLoggedInUser(v) ==
  /\ UNCHANGED notLoginVars
  /\ JobMayStart
  /\ writes < MaxWrites
  /\ writes' = writes + 1
  /\ RefSet(v)
  /\ UNCHANGED <<loginPc, loginResult, microtasks, fetchMyUserCalls,
                 resolveOrder, loginAssigns>>

\* userLogin.ts:4-5  the module has been evaluated: ref() holds undefined and
\* the computed has not been evaluated yet.
InitLogin ==
  /\ loggedInUser = Undefined
  /\ isLoggedIn_dirty = TRUE
  /\ isLoggedIn_cached = FALSE
  /\ loginPc = [c \in LoginCalls |-> "idle"]
  /\ loginResult = [c \in LoginCalls |-> Undefined]
  /\ microtasks = <<>>
  /\ fetchMyUserCalls = 0
  /\ resolveOrder = <<>>
  /\ loginAssigns = 0
  /\ writes = 0



\* ------------------------------------------------- vue: provide / inject
\* key in provides, provides[key]: a property is looked up in the object and
\* then along its prototype chain.
RECURSIVE Lookup(_, _)
Lookup(o, k) ==
  IF o = NoObject THEN Undefined
  ELSE IF k \in DOMAIN own[o] THEN own[o][k]
  ELSE Lookup(proto[o], k)

\* vue provide(key, value), called in the setup() of the current component: the
\* first call gives the component a provides object of its own, whose prototype
\* is the parent's provides object; the value is stored in the own object.
provide(k, v) ==
  LET c == current
      parentProvides == IF parent[c] = 0 THEN NoObject ELSE provides[parent[c]]
  IN IF parentProvides = provides[c]
     THEN /\ provides' = [provides EXCEPT ![c] = c]
          /\ proto' = [proto EXCEPT ![c] = parentProvides]
          /\ own' = [own EXCEPT ![c] = (k :> v)]
     ELSE /\ own' = [own EXCEPT ![provides[c]] = (k :> v) @@ own[provides[c]]]
          /\ UNCHANGED <<provides, proto>>

\* vue inject(key), called in the setup() of component c: the key is looked up
\* in the parent's provides object (the application's for the root); undefined
\* when it is not found.
inject(c, k) ==
  Lookup(IF parent[c] = 0 THEN 0 ELSE provides[parent[c]], k)

\* A component is created as a child of p (0: as the root) and its setup()
\* starts: instance.provides is the parent's provides object, and for the root a
\* new object whose prototype is the application's.
createComponent(c, p) ==
  /\ UNCHANGED notThemeVars
  /\ JobMayStart
  /\ c \notin created
  /\ \A d \in Comps : d < c => d \in created
  /\ IF c = 1 THEN p = 0 ELSE p \in created
  /\ created' = created \cup {c}
  /\ parent' = [parent EXCEPT ![c] = p]
  /\ provides' = [provides EXCEPT ![c] = IF p = 0 THEN c ELSE provides[p]]
  /\ proto' = [proto EXCEPT ![c] = IF p = 0 THEN 0 ELSE NoObject]
  /\ current' = c
  /\ provideCalls' = 0
  /\ UNCHANGED <<own, injected, lastTheme, lastLanguage>>

\* Variant of provideTheme that provides under a key other than the one
\* injectTheme reads.
provideTheme_literalKey(theme) ==
  /\ UNCHANGED notThemeVars
  /\ current # 0
  /\ provideCalls < MaxProvides
  /\ provide(LiteralProvideKey, theme)
  /\ provideCalls' = provideCalls + 1
  /\ lastTheme' = [lastTheme EXCEPT ![current] = theme]
  /\ UNCHANGED <<created, parent, current, injected,
                 lastLanguage>>

\* ProvideInject2.ts:9-11  provideTheme(theme): provide(key, theme)
provideTheme(theme) ==
  /\ UNCHANGED notThemeVars
  /\ current # 0
  /\ provideCalls < MaxProvides
  /\ provide(key_theme, theme)
  /\ provideCalls' = provideCalls + 1
  /\ lastTheme' = [lastTheme EXCEPT ![current] = theme]
  /\ UNCHANGED <<created, parent, current, injected,
                 lastLanguage>>

\* ProvideInject2.ts:14-16  injectTheme(): inject(key)
injectTheme ==
  /\ UNCHANGED notThemeVars
  /\ current # 0
  /\ injected' = [by |-> current, via |-> "injectTheme",
                  result |-> inject(current, key_theme)]
  /\ UNCHANGED <<created, parent, provides, own, proto, current, provideCalls,
                 lastTheme, lastLanguage>>

\* README.md:71  a component calls provide('language', value) itself
provideLanguage(v) ==
  /\ UNCHANGED notThemeVars
  /\ current # 0
  /\ provideCalls < MaxProvides
  /\ provide(LiteralProvideKey, v)
  /\ provideCalls' = provideCalls + 1
  /\ lastLanguage' = [lastLanguage EXCEPT ![current] = v]
  /\ UNCHANGED <<created, parent, current, injected,
                 lastTheme>>

\* setup() of the current component returns; its children may be created now.
setupReturns ==
  /\ UNCHANGED notThemeVars
  /\ current # 0
  /\ current' = 0
  /\ provideCalls' = 0
  /\ UNCHANGED <<created, parent, provides, own, proto, injected, lastTheme,
                 lastLanguage>>

\* No component exists; the application's provides object is empty.
InitTheme ==
  /\ created = {}
  /\ parent = [c \in Comps |-> 0]
  /\ provides = [c \in Comps |-> NoObject]
  /\ own = [o \in Objs |-> <<>>]
  /\ proto = [o \in Objs |-> NoObject]
  /\ current = 0
  /\ provideCalls = 0
  /\ injected = [by |-> 0, via |-> "none", result |-> NotCalled]
  /\ lastTheme = [c \in Comps |-> NoneProvided]
  /\ lastLanguage = [c \in Comps |-> NoneProvided]

NextTheme ==
  \/ \E c \in Comps, p \in 0..NComps : createComponent(c, p)
  \/ \E theme \in Themes : provideTheme(theme)
  \/ injectTheme
  \/ setupReturns

\* ------------------------------------------------------- fetchProduct.ts
\* fetchProduct.ts:8  'Super Product #' + productId converts productId to a
\* string: a number to its decimal digits, undefined to 'undefined'.
NumberToString(productId) ==
  IF productId.type = "undefined" THEN "undefined" ELSE ToString(productId.val)

\* fetchProduct.ts:3-11  what fetchProduct(productId) resolves with
fetchProduct(productId) ==
  [productId |-> productId,
   productName |-> "Super Product #" \o NumberToString(productId)]

\* ------------------------------------------------- @attensi/swr: useSWR
\* README.md:166-172.  A key represents the fetched data and every component
\* that uses the same key refers to the same data (caching); a component that
\* starts to use a key has the data fetched again in the background
\* (revalidate); a key that is being fetched is not fetched again
\* (deduplication).

\* The key of a cache slot: a string key s is <<s>>, an array key [a, b] with
\* its refs replaced by their values is <<a, b>>.
EmptySlot == [data |-> Undefined, error |-> Undefined]
Slot(k) == IF k \in DOMAIN cache THEN cache[k] ELSE EmptySlot

\* Variant of useMyUser() that generates its key in every call.
useMyUser_key_perCall(c) == <<key_myUser, c>>

\* useMyUser.ts:5,8  the key useMyUser() hands to useSWR in component c
useMyUser_key(c) == <<key_myUser>>

\* Variant of useProduct() that leaves productIdRef out of the key.
useProduct_key_noRef(c) == <<uniqueKey>>

\* ProvideInject2.ts:26  the key useProduct(productIdRef) hands to useSWR
useProduct_key(c) == <<uniqueKey, productIdRef[c]>>

\* README.md:180-181  a component calls useSWR('myUser', fetchMyUser) itself
useSWR_key(c) == <<LiteralCacheKey>>

\* ProvideInject2.ts:27-29  (_, productId) => fetchProduct(productId): the
\* fetcher gets the elements of the key and passes the second to fetchProduct;
\* a parameter without an argument is undefined.  fetchMyUser (useMyUser.ts:8)
\* takes no argument.
useProduct_fetcher(h, k) ==
  IF h = "useProduct" /\ Len(k) >= 2 THEN k[2] ELSE Undefined

\* The key component c uses.
keyOf(c) ==
  CASE hook[c] = "useMyUser" -> useMyUser_key(c)
    [] hook[c] = "useProduct" -> useProduct_key(c)
    [] hook[c] = "useSWR" -> useSWR_key(c)

\* useMyUser.ts:8-9 and ProvideInject2.ts:27-30  the data and the error the hook
\* returned to component c, as the component reads them now
data(c) == Slot(keyOf(c)).data
error(c) == Slot(keyOf(c)).error

\* useSWR revalidates key k for hook h: unless k is being fetched, the fetcher
\* is invoked with the elements of the key.  ProvideInject2.ts:27-28: the fetcher
\* of useProduct passes the second element to fetchProduct; useMyUser.ts:8:
\* fetchMyUser takes no argument.
Revalidate(h, k) ==
  IF \E f \in inflight : f.key = k
  THEN UNCHANGED <<inflight, started>>
  ELSE /\ inflight' = inflight \cup
            {[key |-> k, hook |-> h, n |-> started[h] + 1,
              arg |-> useProduct_fetcher(h, k)]}
       /\ started' = [started EXCEPT ![h] = @ + 1]

\* setup() of component c calls hook h (useProduct with a ref that holds p).
mount(c, h, p) ==
  /\ UNCHANGED notSwrVars
  /\ JobMayStart
  /\ hook[c] = "none"
  /\ hook' = [hook EXCEPT ![c] = h]
  /\ productIdRef' = [productIdRef EXCEPT ![c] = p]
  /\ Revalidate(h, keyOf(c)')
  /\ UNCHANGED <<cache, resolved, propChanges>>

\* README.md:244-255  the productId prop of component c changes to p: the ref
\* changes and with it the key.
setProductId(c, p) ==
  /\ UNCHANGED notSwrVars
  /\ JobMayStart
  /\ hook[c] = "useProduct"
  /\ productIdRef[c] # p
  /\ propChanges < MaxPropChanges
  /\ propChanges' = propChanges + 1
  /\ productIdRef' = [productIdRef EXCEPT ![c] = p]
  /\ UNCHANGED hook
  /\ Revalidate("useProduct", keyOf(c)')
  /\ UNCHANGED <<cache, resolved>>

\* userLogin.ts:13-20, fetchProduct.ts:3-11  the delay of fetch f elapsed and
\* the fetcher returned: useSWR stores the result under the key of the fetch.
fetchResolves(f) ==
  /\ UNCHANGED notSwrVars
  /\ JobMayStart
  /\ f \in inflight
  /\ inflight' = inflight \ {f}
  /\ resolved' = [resolved EXCEPT ![f.hook] = @ + 1]
  /\ LET id == [hook |-> f.hook, n |-> f.n]
         result == IF f.hook = "useProduct" THEN Object(id, fetchProduct(f.arg))
                   ELSE UserObject(id)
     IN cache' = (f.key :> [data |-> result, error |-> Slot(f.key).error])
                 @@ cache
  /\ UNCHANGED <<hook, productIdRef, started, propChanges>>

\* No component has called a hook; the cache is empty.
InitSWR ==
  /\ hook = [c \in Callers |-> "none"]
  /\ productIdRef = [c \in Callers |-> Undefined]
  /\ cache = <<>>
  /\ inflight = {}
  /\ started = [h \in Hooks |-> 0]
  /\ resolved = [h \in Hooks |-> 0]
  /\ propChanges = 0

NextSWR ==
  \/ \E c \in Callers, p \in ProductIds : mount(c, "useProduct", p)
  \/ \E c \in Callers : mount(c, "useMyUser", Undefined)
  \/ \E c \in Callers : mount(c, "useSWR", Undefined)
  \/ \E c \in Callers, p \in ProductIds : setProductId(c, p)
  \/ \E f \in inflight : fetchResolves(f)

Init == InitKeys /\ InitLogin /\ InitTheme /\ InitSWR

\* Only login() is called (and the computed is read).
NextLogin ==
  \/ \E c \in LoginCalls : login(c)
  \/ \E c \in LoginCalls : delayElapsed(c)
  \/ fetchMyUserReturns
  \/ loginResumes
  \/ readIsLoggedIn

\* login() calls and direct assignments to loggedInUser.value.
NextGlobal ==
  \/ \E c \in LoginCalls : login(c)
  \/ \E c \in LoginCalls : delayElapsed(c)
  \/ fetchMyUserReturns
  \/ loginResumes
  \/ readIsLoggedIn
  \/ \E v \in DirectValues : assignLoggedInUser(v)

SpecLogin == Init /\ [][NextLogin]_vars

\* Timers fire and queued microtasks run.
FairLogin ==
  /\ \A c \in LoginCalls : WF_vars(delayElapsed(c))
  /\ WF_vars(fetchMyUserReturns)
  /\ WF_vars(loginResumes)

FairSpecLogin == SpecLogin /\ FairLogin

SpecGlobal == Init /\ [][NextGlobal]_vars

SpecTheme == Init /\ [][NextTheme]_vars

SpecSWR == Init /\ [][NextSWR]_vars

\* Components call useMyUser() or useSWR('myUser', fetchMyUser).
NextUser ==
  \/ \E c \in Callers : mount(c, "useMyUser", Undefined)
  \/ \E c \in Callers : mount(c, "useSWR", Undefined)
  \/ \E f \in inflight : fetchResolves(f)

SpecUser == Init /\ [][NextUser]_vars

\* The timer of every fetch fires.
FairUser ==
  \A h \in Hooks, n \in 1..NCallers :
    WF_vars(\E f \in inflight : f.hook = h /\ f.n = n /\ fetchResolves(f))

FairSpecUser == SpecUser /\ FairUser

\* The three modules in one application, next to components that choose keys
\* themselves: a tree of NKeyComps components provides a theme through
\* provideTheme and a language through provide('language'), and components call
\* useProduct, useMyUser and useSWR('myUser', fetchMyUser).  What injectTheme()
\* and inject('language') return in component c is inject(c, key_theme) and
\* inject(c, 'language'), which the properties read in every state.
NextKeys ==
  \/ \E c \in 1..NKeyComps, p \in 0..NKeyComps : createComponent(c, p)
  \/ provideTheme(Str("dark"))
  \/ \E v \in Languages : provideLanguage(v)
  \/ setupReturns
  \/ \E c \in Callers : mount(c, "useProduct", Num(1))
  \/ \E c \in Callers : mount(c, "useMyUser", Undefined)
  \/ \E c \in Callers : mount(c, "useSWR", Undefined)
  \/ \E f \in inflight : fetchResolves(f)

SpecKeys == Init /\ [][NextKeys]_vars

\* ------------------------------------------------------------ properties

\* The value provided by the nearest ancestor of c among those that provided
\* one (last: the last value each component provided); undefined when none did.
RECURSIVE NearestProvided(_, _)
NearestProvided(c, last) ==
  IF parent[c] = 0 THEN Undefined
  ELSE IF last[parent[c]] # NoneProvided THEN last[parent[c]]
  ELSE NearestProvided(parent[c], last)

\* d is c or a descendant of c.
RECURSIVE InSubtree(_, _)
InSubtree(d, c) ==
  IF d = c THEN TRUE
  ELSE IF parent[d] = 0 THEN FALSE
  ELSE InSubtree(parent[d], c)

UseMyUserCallers == {c \in Callers : hook[c] = "useMyUser"}
UseProductCallers == {c \in Callers : hook[c] = "useProduct"}
FirstUser == UserObject([hook |-> "useMyUser", n |-> 1])

\* C1  Deduplication: while no fetch of useMyUser() has resolved, however many
\* components have called useMyUser(), fetchMyUser has been invoked exactly
\* once; all these components read the same user, and once that single fetch
\* has resolved they all read the object it returned.
C1_Deduplication ==
  /\ (UseMyUserCallers # {} /\ resolved["useMyUser"] = 0)
        => started["useMyUser"] = 1
  /\ \A c, d \in UseMyUserCallers : data(c) = data(d)
  /\ (UseMyUserCallers # {} /\ started["useMyUser"] = 1
        /\ resolved["useMyUser"] = 1)
        => \A c \in UseMyUserCallers : data(c) = FirstUser

\* C1 witness: every component called useMyUser() before the only fetch
\* resolved, and all read the user of that fetch.
C1_Witness ==
  /\ UseMyUserCallers = Callers
  /\ started["useMyUser"] = 1
  /\ resolved["useMyUser"] = 1
  /\ \A c \in Callers : data(c) = FirstUser

\* C2  Scoped broadcast: injectTheme() returns the theme last given to
\* provideTheme by the nearest ancestor that called it, undefined when no
\* ancestor called it; and no step changes what injectTheme returns in a
\* component outside the subtree of the component that is running setup().
C2_ScopedBroadcast ==
  /\ [](/\ injected.via = "injectTheme"
            => injected.result = NearestProvided(injected.by, lastTheme)
        /\ \A c \in created :
             inject(c, key_theme) = NearestProvided(c, lastTheme))
  /\ [][\A d \in created :
          (current = 0 \/ ~InSubtree(d, current) \/ d = current)
            => inject(d, key_theme)' = inject(d, key_theme)]_vars

\* C2 witness: the root provided twice, ending with light; its child 2 provided
\* dark; its child 3 called injectTheme() and got light.
C2_Witness ==
  /\ created = {1, 2, 3}
  /\ parent[2] = 1 /\ parent[3] = 1
  /\ lastTheme[1] = Str("light") /\ lastTheme[2] = Str("dark")
  /\ injected = [by |-> 3, via |-> "injectTheme", result |-> Str("light")]

\* C3  isLoggedIn is true exactly when loggedInUser.value is not undefined, after
\* any login() calls and direct assignments; before any of them loggedInUser is
\* undefined and isLoggedIn is false.
C3_IsLoggedInIffUser ==
  /\ isLoggedIn = (loggedInUser # Undefined)
  /\ (fetchMyUserCalls = 0 /\ writes = 0)
        => (loggedInUser = Undefined /\ ~isLoggedIn)

\* C3 witness: after a login() completed a component assigned null, and the
\* computed, evaluated since, is true.
C3_Witness ==
  /\ loginAssigns > 0
  /\ writes > 0
  /\ loggedInUser = Null
  /\ ~isLoggedIn_dirty
  /\ isLoggedIn

\* C4  Stale-while-revalidate: a component that calls useMyUser() after a fetch
\* of useMyUser() has resolved reads at once the cached user, which is not
\* undefined, and a fetch of the key is in flight; the result of every fetch of
\* useMyUser() eventually is what every component that called useMyUser() reads.
C4_StaleWhileRevalidate ==
  /\ [][\A c \in Callers :
          (hook[c] = "none" /\ hook'[c] = "useMyUser" /\ resolved["useMyUser"] > 0)
            => /\ data(c)' # Undefined
               /\ data(c)' = Slot(useMyUser_key(c)).data
               /\ \E f \in inflight' : f.key = keyOf(c)']_vars
  /\ \A n \in 1..NCallers :
       (\E f \in inflight : f.hook = "useMyUser" /\ f.n = n)
         ~> (\A c \in UseMyUserCallers :
               data(c) = UserObject([hook |-> "useMyUser", n |-> n]))

\* C4 witness: component 2 called useMyUser() after the first fetch resolved;
\* it reads the first user while the second fetch is in flight.
C4_Witness ==
  /\ hook[1] = "useMyUser" /\ hook[2] = "useMyUser"
  /\ resolved["useMyUser"] = 1
  /\ data(2) = FirstUser
  /\ \E f \in inflight : f.hook = "useMyUser" /\ f.n = 2

\* C5  useProduct keys the cache by the current value of productIdRef: a fetch
\* for the key of a component was called with that value and is the only one
\* for the key; a component has a product or a fetch in flight; components
\* whose refs hold the same id use one slot, components whose refs hold
\* different ids use different slots and never read the same product; a
\* product that is defined has the productId the ref holds now.
C5_ProductKey ==
  \A c \in UseProductCallers :
    /\ \A f \in inflight : f.key = keyOf(c) => f.arg = productIdRef[c]
    /\ Cardinality({f \in inflight : f.key = keyOf(c)}) <= 1
    /\ data(c) = Undefined => \E f \in inflight : f.key = keyOf(c)
    /\ data(c) # Undefined => data(c).fields.productId = productIdRef[c]
    /\ \A d \in UseProductCallers :
         IF productIdRef[c] = productIdRef[d]
         THEN keyOf(c) = keyOf(d) /\ data(c) = data(d)
         ELSE keyOf(c) # keyOf(d) /\ (data(c) # Undefined => data(c) # data(d))

\* C5 witness: the prop of component 1 changed from 1 to 2; it reads product 2
\* while component 2 reads product 1.
C5_Witness ==
  /\ hook[1] = "useProduct" /\ hook[2] = "useProduct"
  /\ propChanges > 0
  /\ productIdRef[1] = Num(2) /\ productIdRef[2] = Num(1)
  /\ <<uniqueKey, Num(1)>> \in DOMAIN cache
  /\ <<uniqueKey, Num(2)>> \in DOMAIN cache
  /\ data(1) = Object([hook |-> "useProduct", n |-> 2], fetchProduct(Num(2)))
  /\ data(1).fields.productName = "Super Product #2"
  /\ data(2) # Undefined /\ data(2).fields = fetchProduct(Num(1))

\* C7  Key namespacing: no step changes a module's key and every call uses it;
\* the three keys are pairwise distinct and differ from the keys components
\* write themselves; what a hook returns was fetched through that hook; in every
\* component injectTheme returns what the nearest ancestor gave to provideTheme
\* and inject('language') what the nearest ancestor gave to
\* provide('language'), whatever has been provided and cached elsewhere.
C7_KeyNamespacing ==
  /\ [][key_theme' = key_theme /\ key_myUser' = key_myUser
          /\ uniqueKey' = uniqueKey]_vars
  /\ [](/\ Cardinality({key_theme, key_myUser, uniqueKey}) = 3
        /\ {key_theme, key_myUser, uniqueKey}
             \cap {LiteralProvideKey, LiteralCacheKey} = {}
        /\ \A c \in Callers :
             /\ hook[c] = "useMyUser" => keyOf(c) = <<key_myUser>>
             /\ hook[c] = "useProduct" => keyOf(c) = <<uniqueKey, productIdRef[c]>>
             /\ (hook[c] # "none" /\ data(c) # Undefined)
                  => data(c).id.hook = hook[c]
        /\ \A c \in created :
             /\ lastTheme[c] # NoneProvided
                  => /\ key_theme \in DOMAIN own[provides[c]]
                     /\ own[provides[c]][key_theme] = lastTheme[c]
             /\ lastLanguage[c] # NoneProvided
                  => /\ LiteralProvideKey \in DOMAIN own[provides[c]]
                     /\ own[provides[c]][LiteralProvideKey] = lastLanguage[c]
             /\ inject(c, key_theme) = NearestProvided(c, lastTheme)
             /\ inject(c, LiteralProvideKey) = NearestProvided(c, lastLanguage))

\* C7 witness: the root provided a theme and a language and its child reads
\* each under its own key; one component read a user through useMyUser(),
\* another one through useSWR('myUser', fetchMyUser), and the two users are
\* different objects.
C7_Witness ==
  /\ created = {1, 2} /\ parent[2] = 1
  /\ lastTheme[1] = Str("dark") /\ lastLanguage[1] = Str("en-GB")
  /\ inject(2, key_theme) = Str("dark")
  /\ inject(2, LiteralProvideKey) = Str("en-GB")
  /\ hook[1] = "useMyUser" /\ hook[2] = "useSWR"
  /\ data(1) # Undefined /\ data(2) # Undefined
  /\ data(1).id.hook = "useMyUser" /\ data(2).id.hook = "useSWR"
  /\ data(1) # data(2)

\* C8  login() leaves loggedInUser unchanged until fetchMyUser has resolved and
\* then assigns the fetched user, which makes isLoggedIn true; every login()
\* that was called completes.
C8_LoginAwaitsFetch ==
  /\ [][\A c \in LoginCalls :
          loginPc'[c] # loginPc[c]
            => IF loginPc'[c] = "done"
               THEN /\ loginPc[c] = "fetched"
                    /\ loggedInUser' = loginResult[c]
                    /\ loginResult[c] = UserObject(c)
                    /\ isLoggedIn'
               ELSE loggedInUser' = loggedInUser]_vars
  /\ \A c \in LoginCalls : (loginPc[c] = "delay") ~> (loginPc[c] = "done")

\* C8 witness: the first login() completed and assigned its user while the
\* second is waiting for its fetch.
C8_Witness ==
  /\ loginPc[1] = "done"
  /\ loginPc[2] = "delay"
  /\ loggedInUser = UserObject(1)
  /\ isLoggedIn

\* C9  login() is not deduplicated: fetchMyUser has been invoked once per
\* login() call, every completed login() assigned loggedInUser, and whenever no
\* continuation is pending loggedInUser is the result of the fetch that
\* resolved last.
C9_LoginNotDeduplicated ==
  /\ fetchMyUserCalls = Cardinality({c \in LoginCalls : loginPc[c] # "idle"})
  /\ loginAssigns = Cardinality({c \in LoginCalls : loginPc[c] = "done"})
  /\ Len(resolveOrder) =
       Cardinality({c \in LoginCalls : loginPc[c] \in {"fetched", "done"}})
  /\ (microtasks = <<>> /\ resolveOrder # <<>>)
        => loggedInUser = UserObject(resolveOrder[Len(resolveOrder)])

\* C9 witness: three login() calls, three invocations of fetchMyUser; two have
\* completed while the third is waiting, and loggedInUser is the second user.
C9_Witness ==
  /\ fetchMyUserCalls = 3
  /\ loginPc[1] = "done" /\ loginPc[2] = "done" /\ loginPc[3] = "delay"
  /\ resolveOrder = <<1, 2>>
  /\ loginAssigns = 2
  /\ loggedInUser = UserObject(2)

\* C10  With login() as the only operation, no step makes isLoggedIn false once
\* it is true.
C10_StaysLoggedIn == [][isLoggedIn => isLoggedIn']_vars

\* C10 witness: isLoggedIn is true after the first login() and a second login()
\* has been called since and is waiting.
C10_Witness ==
  /\ isLoggedIn
  /\ resolveOrder = <<1>>
  /\ loginPc[1] = "done"
  /\ loginPc[2] = "delay"
  /\ fetchMyUserCalls = 2

====
